---- MODULE Spec2Model ----
(***************************************************************************)
(* Model of utee/kmeans.py: the nearest-center assignment choose_centers,  *)
(* the three Forgy initialisations and the four Lloyd loops.               *)
(*                                                                         *)
(* Tensors are records [shape, val]: shape is the torch shape, val the     *)
(* nested sequence of entries (val[i][j] is the entry at the 0-based torch *)
(* index (i-1, j-1)).  Index VALUES (argmin results, randperm draws,       *)
(* nonzero positions) are 0-based as in torch.  Floating point numbers are *)
(* modelled as exact rationals <<numerator, denominator>> in lowest terms. *)
(***************************************************************************)
EXTENDS Integers, Sequences, FiniteSets, TLC

VARIABLES fn, X, Xp, K, max_iter, pc, err, indices, centers, centers_init,
          centers_old, choice_cluster, i, shifts

vars == <<fn, X, Xp, K, max_iter, pc, err, indices, centers, centers_init,
          centers_old, choice_cluster, i, shifts>>

(***************************************************************************)
(* Bounds of the model.                                                    *)
(***************************************************************************)
MaxN == 3
MaxK == 3
MaxIter == 3

(***************************************************************************)
(* Program constants: the defaults of tol and max_iter.                    *)
(***************************************************************************)
default_max_iter == 20
tol_num == 1
tol_den == 10000

(***************************************************************************)
(* Exact rationals.                                                        *)
(***************************************************************************)
Abs(a) == IF a < 0 THEN -a ELSE a

RECURSIVE GCD(_, _)
GCD(a, b) == IF b = 0 THEN a ELSE GCD(b, a % b)

Norm(n, dn) == LET g == GCD(Abs(n), dn) IN <<n \div g, dn \div g>>
ToRat(a) == <<a, 1>>
Zero == <<0, 1>>
RAdd(p, q) == Norm(p[1] * q[2] + q[1] * p[2], p[2] * q[2])
RSub(p, q) == Norm(p[1] * q[2] - q[1] * p[2], p[2] * q[2])
RMul(p, q) == Norm(p[1] * q[1], p[2] * q[2])
RLt(p, q) == p[1] * q[2] < q[1] * p[2]
RAbs(p) == <<Abs(p[1]), p[2]>>

RECURSIVE RSum(_)
RSum(s) == IF s = <<>> THEN Zero ELSE RAdd(Head(s), RSum(Tail(s)))

RECURSIVE ISum(_)
ISum(s) == IF s = <<>> THEN 0 ELSE Head(s) + ISum(Tail(s))

(***************************************************************************)
(* Tensors and the outcome of a call: a tensor, or a raised exception.     *)
(***************************************************************************)
Tensor(shape, val) == [shape |-> shape, val |-> val]
Ok(t) == [ok |-> TRUE, shape |-> t.shape, val |-> t.val, err |-> ""]
Raise(e) == [ok |-> FALSE, shape |-> <<>>, val |-> <<>>, err |-> e]
Unbound == [bound |-> FALSE, shape |-> <<>>, val |-> <<>>]
Bound(t) == [bound |-> TRUE, shape |-> t.shape, val |-> t.val]
NoTensor == Tensor(<<>>, <<>>)

\* Tensor.squeeze(): every dimension of size 1 is removed.
RECURSIVE SqueezeVal(_, _)
SqueezeVal(v, s) ==
    IF s = <<>> THEN v
    ELSE IF s[1] = 1 THEN SqueezeVal(v[1], Tail(s))
    ELSE [a \in 1..s[1] |-> SqueezeVal(v[a], Tail(s))]

Squeeze(t) == Tensor(SelectSeq(t.shape, LAMBDA n : n # 1), SqueezeVal(t.val, t.shape))

\* The 0-based position of the first minimal entry of a non-empty sequence
\* (torch.argmin returns the first of several minimal entries).
ArgMinIdx(s) ==
    (CHOOSE a \in 1..Len(s) :
        /\ \A b \in 1..Len(s) : ~RLt(s[b], s[a])
        /\ \A b \in 1..(a - 1) : RLt(s[a], s[b])) - 1

\* torch.argmin(t, dim=1): dimension 1 must exist and be non-empty; it is
\* reduced away.  Tensors here have at most three dimensions.
ArgminDim1(t) ==
    IF Len(t.shape) < 2 THEN Raise("IndexError")
    ELSE IF t.shape[2] = 0 THEN Raise("IndexError")
    ELSE IF Len(t.shape) = 2
         THEN Ok(Tensor(<<t.shape[1]>>,
                        [a \in 1..t.shape[1] |-> ArgMinIdx(t.val[a])]))
         ELSE Ok(Tensor(<<t.shape[1], t.shape[3]>>,
                        [a \in 1..t.shape[1] |->
                           [c \in 1..t.shape[3] |->
                              ArgMinIdx([b \in 1..t.shape[2] |-> t.val[a][b][c]])]]))

\* ((X - centers) ** 2.0) after the two unsqueeze calls: shape (N, d, K).
\* There is no sum over the d axis.
Distance(Xt, Ct) ==
    Tensor(<<Xt.shape[1], Xt.shape[2], Ct.shape[1]>>,
           [a \in 1..Xt.shape[1] |->
              [b \in 1..Xt.shape[2] |->
                 [c \in 1..Ct.shape[1] |->
                    LET df == RSub(ToRat(Xt.val[a][b]), Ct.val[c][b])
                    IN RMul(df, df)]]])

choose_centers(Xt, Ct) ==
    IF Len(Xt.shape) # 2 \/ Len(Ct.shape) # 2 THEN Raise("AssertionError")
    ELSE IF Xt.shape[2] # Ct.shape[2] THEN Raise("AssertionError")
    ELSE ArgminDim1(Squeeze(Distance(Xt, Ct)))

(***************************************************************************)
(* Inputs.  A direct call of choose_centers takes any N x d data matrix    *)
(* and K x d center matrix with N, K >= 1 and d in {1, 2}.  A call of a    *)
(* Lloyd function takes N >= 2 rows and K >= 2: one-column data over Vals, *)
(* two-column data over RowsEx (which includes the 4 x 2 example of the    *)
(* documentation), and for the nnz variants any 0/1 vector Xp of length N. *)
(* K may exceed the number of candidate rows.                              *)
(***************************************************************************)
Vals == {0, 1, 3}
Rows1 == {<<v>> : v \in Vals}
Rows2 == {<<0, 0>>, <<0, 3>>, <<3, 3>>}
RowsEx == {<<0, 0>>, <<10, 10>>}
ExampleX == Tensor(<<4, 2>>, <<<<0, 0>>, <<0, 0>>, <<10, 10>>, <<10, 10>>>>)

Mats(rows, d, lo, hi) ==
    UNION {{Tensor(<<n, d>>, v) : v \in [1..n -> rows]} : n \in lo..hi}

RatMat(t) == Tensor(t.shape, [a \in 1..t.shape[1] |->
                                [b \in 1..t.shape[2] |-> ToRat(t.val[a][b])]])

Min(a, b) == IF a < b THEN a ELSE b

\* torch.randperm(n)[0:k]: any sequence of min(k, n) distinct positions of
\* 0..n-1 (a slice past the end is silently shortened).
Draw(n, k) ==
    {s \in [1..Min(k, n) -> 0..(n - 1)] :
        \A a, b \in 1..Min(k, n) : a # b => s[a] # s[b]}

NonZero_Zeros(v) == SelectSeq([a \in 1..Len(v) |-> a - 1], LAMBDA p : v[p + 1] = 0)

\* torch.nonzero of a vector: the 0-based positions of its non-zero entries.
NonZero(v) == SelectSeq([a \in 1..Len(v) |-> a - 1], LAMBDA p : v[p + 1] # 0)

RatRow(row) == [b \in 1..Len(row) |-> ToRat(row[b])]

\* X[idx0] where idx0 = nnz_dix[indices].squeeze(): a single drawn index
\* squeezes to a 0-dim tensor and selects one row, of shape (d,).
SelectRows(Xt, idx0) ==
    IF Len(idx0) = 1
    THEN Tensor(<<Xt.shape[2]>>, RatRow(Xt.val[idx0[1] + 1]))
    ELSE Tensor(<<Len(idx0), Xt.shape[2]>>,
                [q \in 1..Len(idx0) |-> RatRow(Xt.val[idx0[q] + 1])])

forgy_initialization(Xt, k, idx) ==
    Ok(Tensor(<<Len(idx), Xt.shape[2]>>,
              [q \in 1..Len(idx) |-> RatRow(Xt.val[idx[q] + 1])]))

forgy_initialization_nnz_NoZeroRow(Xt, Xpv, k, idx) ==
    Ok(SelectRows(Xt, [q \in 1..Len(idx) |-> NonZero(Xpv)[idx[q] + 1]]))

\* torch.cat([X[idx0], zero_el]) with zero_el of shape (1, 1): both must have
\* two dimensions and one column.
forgy_initialization_nnz(Xt, Xpv, k, idx) ==
    LET nnz_dix == NonZero(Xpv)
        sel == SelectRows(Xt, [q \in 1..Len(idx) |-> nnz_dix[idx[q] + 1]])
    IN IF Len(sel.shape) # 2 THEN Raise("RuntimeError")
       ELSE IF sel.shape[2] # 1 THEN Raise("RuntimeError")
       ELSE Ok(Tensor(<<sel.shape[1] + 1, 1>>, Append(sel.val, <<Zero>>)))

forgy_initialization_fixed_nnz(Xt, Xpv, k, idx) ==
    LET nnz_dix == NonZero(Xpv)
    IN Ok(SelectRows(Xt, [q \in 1..Len(idx) |-> nnz_dix[idx[q] + 1]]))

\* Xnnz = X[nnz_idx].squeeze(-1) of lloyd_fixed_nnz: X[nnz_idx] has shape
\* (M, 1, d); only a last dimension of size 1 is squeezed.
Xnnz(Xt, Xpv) ==
    LET nnz_idx == NonZero(Xpv) IN
    IF Xt.shape[2] = 1
    THEN Tensor(<<Len(nnz_idx), 1>>,
                [q \in 1..Len(nnz_idx) |-> Xt.val[nnz_idx[q] + 1]])
    ELSE Tensor(<<Len(nnz_idx), 1, Xt.shape[2]>>,
                [q \in 1..Len(nnz_idx) |-> <<Xt.val[nnz_idx[q] + 1]>>])

LloydFns == {"lloyd", "lloyd_nnz", "lloyd_nnz_fixed_0_center", "lloyd_fixed_nnz"}

\* The data matrix the loop works on, and the shape of one_hot.
Data == IF fn = "lloyd_fixed_nnz" THEN Xnnz(X, Xp) ELSE X
OneHotRows == IF fn = "lloyd_fixed_nnz" THEN Len(NonZero(Xp)) ELSE X.shape[1]
OneHotCols ==
    CASE fn = "lloyd" -> K
      [] fn = "lloyd_nnz" -> K
      [] fn = "lloyd_nnz_fixed_0_center" -> K + 1
      [] fn = "lloyd_fixed_nnz" -> K - 1
      [] OTHER -> 0

Reciprocal_Missing(cnt) == <<cnt, 1>>

\* Xsum[idx] = 1./Xsum[idx]: the reciprocal of the non-zero counts only.
Reciprocal(cnt) == IF cnt = 0 THEN Zero ELSE <<1, cnt>>

\* (Xp * Xsum): the per-cluster sums times the guarded reciprocals of the
\* per-cluster counts, for a one-column data matrix.
NewCenters(Xd, cc, cols) ==
    [c \in 1..cols |->
        LET one_hot == [a \in 1..Xd.shape[1] |->
                          IF a <= cc.shape[1] /\ cc.val[a] = c - 1 THEN 1 ELSE 0]
            Xp_c == ISum([a \in 1..Xd.shape[1] |-> Xd.val[a][1] * one_hot[a]])
            Xsum_c == ISum(one_hot)
        IN <<RMul(ToRat(Xp_c), Reciprocal(Xsum_c))>>]

\* center_shift for one-column center matrices, with torch broadcasting of
\* a one-row operand: the sum of the absolute differences.
CenterShift(cnew, cold) ==
    LET rows == IF cnew.shape[1] = 1 THEN cold.shape[1] ELSE cnew.shape[1]
    IN RSum([a \in 1..rows |->
               RAbs(RSub(cnew.val[IF cnew.shape[1] = 1 THEN 1 ELSE a][1],
                         cold.val[IF cold.shape[1] = 1 THEN 1 ELSE a][1]))])

ShiftBelowTol_Inverted(s) == s[1] * s[1] * tol_den > tol_num * s[2] * s[2]

\* center_shift ** 2 < tol
ShiftBelowTol(s) == s[1] * s[1] * tol_den < tol_num * s[2] * s[2]

StepOk(cc, cen, sh) ==
    [ok |-> TRUE, err |-> "", choice |-> cc, centers |-> cen, shift |-> sh]
StepRaise(e) ==
    [ok |-> FALSE, err |-> e, choice |-> NoTensor, centers |-> NoTensor, shift |-> Zero]

\* The new value of centers: replaced as a whole, or (fixed-0 variant)
\* centers[:K] = new[:K] written in place.
AssignCenters(cen, new, keep) ==
    IF keep < 0 THEN Ok(Tensor(<<Len(new), 1>>, new))
    ELSE IF Min(cen.shape[1], keep) # Min(Len(new), keep) /\ Min(Len(new), keep) # 1
    THEN Raise("RuntimeError")
    ELSE Ok(Tensor(cen.shape,
                   [a \in 1..cen.shape[1] |->
                      IF a <= keep
                      THEN new[IF Min(Len(new), keep) = 1 THEN 1 ELSE a]
                      ELSE cen.val[a]]))

\* One pass of the loop body: assignment, one-hot aggregation, update and
\* center_shift.  rows x cols is the shape of one_hot; keep is K for the
\* in-place update of the fixed-0 variant and -1 otherwise.
LloydStep(Xd, cen, rows, cols, keep) ==
    LET cc == choose_centers(Xd, cen) IN
    IF ~cc.ok THEN StepRaise(cc.err)
    \* one_hot.scatter_(1, choice_cluster.unsqueeze(1), 1)
    ELSE IF \/ Len(cc.shape) # 1
            \/ cc.shape[1] > rows
            \/ \E a \in 1..cc.shape[1] : cc.val[a] >= cols
    THEN StepRaise("RuntimeError")
    \* X * one_hot broadcasts (rows, d) against (rows, cols)
    ELSE IF ~(Xd.shape[2] = 1 \/ cols = 1 \/ Xd.shape[2] = cols)
    THEN StepRaise("RuntimeError")
    ELSE IF Xd.shape[2] # 1 THEN StepRaise("unmodelled")
    ELSE LET upd == AssignCenters(cen, NewCenters(Xd, cc, cols), keep) IN
         IF ~upd.ok THEN StepRaise(upd.err)
         \* centers - centers_old broadcasts the row counts
         ELSE IF upd.shape[1] # cen.shape[1] /\ upd.shape[1] # 1 /\ cen.shape[1] # 1
         THEN StepRaise("RuntimeError")
         ELSE StepOk(Tensor(cc.shape, cc.val), Tensor(upd.shape, upd.val),
                     CenterShift(upd, cen))

Init ==
    /\ fn \in LloydFns \cup {"choose_centers"}
    /\ \/ /\ fn = "choose_centers"
          /\ \E d \in 1..2 :
               /\ X \in Mats(IF d = 1 THEN Rows1 ELSE Rows2, d, 1, MaxN)
               /\ centers \in {RatMat(m) :
                      m \in Mats(IF d = 1 THEN Rows1 ELSE Rows2, d, 1, MaxK)}
          /\ K = centers.shape[1]
          /\ max_iter = 0
          /\ Xp = <<>>
       \/ /\ fn \in LloydFns
          /\ X \in Mats(Rows1, 1, 2, MaxN) \cup Mats(RowsEx, 2, 2, MaxN) \cup {ExampleX}
          /\ K \in 2..MaxK
          /\ max_iter \in 0..MaxIter \cup {default_max_iter}
          /\ Xp \in IF fn = "lloyd" THEN {<<>>} ELSE [1..X.shape[1] -> {0, 1}]
          /\ centers = NoTensor
    /\ pc = "start"
    /\ err = ""
    /\ indices = <<>>
    /\ centers_init = NoTensor
    /\ centers_old = NoTensor
    /\ choice_cluster = Unbound
    /\ i = 0
    /\ shifts = <<>>

\* A direct call choose_centers(X, centers).
CallChooseCenters ==
    /\ fn = "choose_centers"
    /\ pc = "start"
    /\ \E r \in {choose_centers(X, centers)} :
         /\ pc' = IF r.ok THEN "done" ELSE "error"
         /\ err' = r.err
         /\ choice_cluster' = IF r.ok THEN Bound(r) ELSE Unbound
    /\ UNCHANGED <<fn, X, Xp, K, max_iter, indices, centers, centers_init,
                   centers_old, i, shifts>>

\* The number of candidate rows an initialisation draws from, and the
\* number of rows it is asked to draw.
Candidates == IF fn = "lloyd" THEN X.shape[1] ELSE Len(NonZero(Xp))
Requested == 
    CASE fn = "lloyd" -> K
      [] fn = "lloyd_nnz" -> K - 1
      [] fn = "lloyd_nnz_fixed_0_center" -> K
      [] fn = "lloyd_fixed_nnz" -> K - 1
      [] OTHER -> 0

InitialCenters(idx) ==
    CASE fn = "lloyd" -> forgy_initialization(X, K, idx)
      [] fn = "lloyd_nnz" -> forgy_initialization_nnz(X, Xp, K, idx)
      [] fn = "lloyd_nnz_fixed_0_center" -> forgy_initialization_nnz(X, Xp, K + 1, idx)
      [] fn = "lloyd_fixed_nnz" -> forgy_initialization_fixed_nnz(X, Xp, K, idx)

\* The part of a Lloyd function before its loop: the centers are drawn.
Initialize ==
    /\ fn \in LloydFns
    /\ pc = "start"
    /\ \E idx \in Draw(Candidates, Requested) :
         \E r \in {InitialCenters(idx)} :
           /\ indices' = idx
           /\ pc' = IF ~r.ok THEN "error" ELSE IF max_iter = 0 THEN "exit" ELSE "loop"
           /\ err' = r.err
           /\ centers' = IF r.ok THEN Tensor(r.shape, r.val) ELSE NoTensor
           /\ centers_init' = centers'
    /\ UNCHANGED <<fn, X, Xp, K, max_iter, centers_old, choice_cluster, i, shifts>>

\* One iteration of "for i in range(max_iter)", up to and including the
\* breaking condition.
Iterate ==
    /\ fn \in LloydFns
    /\ pc = "loop"
    /\ \E r \in {LloydStep(Data, centers, OneHotRows, OneHotCols,
                           IF fn = "lloyd_nnz_fixed_0_center" THEN K ELSE -1)} :
          IF ~r.ok
          THEN /\ pc' = "error"
               /\ err' = r.err
               /\ UNCHANGED <<centers, centers_old, choice_cluster, i, shifts>>
          ELSE /\ choice_cluster' = Bound(r.choice)
               /\ centers_old' = centers
               /\ centers' = r.centers
               /\ shifts' = Append(shifts, r.shift)
               /\ i' = i + 1
               /\ pc' = IF ShiftBelowTol(r.shift) \/ i + 1 >= max_iter
                        THEN "exit" ELSE "loop"
               /\ err' = err
    /\ UNCHANGED <<fn, X, Xp, K, max_iter, indices, centers_init>>

\* "return choice_cluster, centers": choice_cluster is a local that only
\* the loop body binds.
Return ==
    /\ fn \in LloydFns
    /\ pc = "exit"
    /\ IF choice_cluster.bound
       THEN pc' = "done" /\ err' = err
       ELSE pc' = "error" /\ err' = "UnboundLocalError"
    /\ UNCHANGED <<fn, X, Xp, K, max_iter, indices, centers, centers_init,
                   centers_old, choice_cluster, i, shifts>>

Next == CallChooseCenters \/ Initialize \/ Iterate \/ Return

Spec == Init /\ [][Next]_vars

\* The loop body only ever multiplies a one-column data matrix by one_hot.
ModelledShapes == err # "unmodelled"

(***************************************************************************)
(* Vocabulary of the properties.  After an iteration, choice_cluster,      *)
(* centers_old and centers are the assignment, the centers it was computed *)
(* against and the centers the update produced.                            *)
(***************************************************************************)
Iterated == fn \in LloydFns /\ i >= 1
Initialized == fn \in LloydFns /\ centers_init # NoTensor
Members(k) == {a \in 1..choice_cluster.shape[1] : choice_cluster.val[a] = k - 1}
Count(k) == Cardinality(Members(k))
SumOfMembers(k, b) ==
    ISum([a \in 1..choice_cluster.shape[1] |->
            IF a \in Members(k) THEN Data.val[a][b] ELSE 0])
\* The centers the update rule writes: all of them, or the first K.
UpdatedRows == IF fn = "lloyd_nnz_fixed_0_center" THEN K ELSE centers.shape[1]
LastRow(t) == t.val[t.shape[1]]
SqDist(row, crow) ==
    RSum([b \in 1..Len(row) |->
            RMul(RSub(ToRat(row[b]), crow[b]), RSub(ToRat(row[b]), crow[b]))])
\* k (0-based) is the lowest index among the centers nearest to row.
IsNearest(row, cen, k) ==
    /\ k \in 0..(cen.shape[1] - 1)
    /\ \A c \in 1..cen.shape[1] : ~RLt(SqDist(row, cen.val[c]), SqDist(row, cen.val[k + 1]))
    /\ \A c \in 1..k : RLt(SqDist(row, cen.val[k + 1]), SqDist(row, cen.val[c]))
BelowTol(s) == s[1] * s[1] * 10000 < s[2] * s[2]

\* C1: after an update step, every updated cluster that received no point
\* has a center equal to its center before the step.
C1_EmptyClusterKeepsCenter ==
    Iterated =>
        \A k \in 1..UpdatedRows :
            Count(k) = 0 => centers.val[k] = centers_old.val[k]

\* C2: choose_centers(X, centers) returns, for an N x d matrix X and a K x d
\* matrix centers, a vector of length N whose entry for row a is the lowest
\* index of a center at minimal squared Euclidean distance from X[a].
C2_AssignmentIsNearestCenter ==
    (fn = "choose_centers" /\ pc # "start") =>
        /\ pc = "done"
        /\ choice_cluster.shape = <<X.shape[1]>>
        /\ \A a \in 1..X.shape[1] :
              IsNearest(X.val[a], centers, choice_cluster.val[a])

C4_ZeroIterationsReturnsInit ==
    (fn = "lloyd" /\ max_iter = 0 /\ pc \in {"done", "error"}) =>
        /\ pc = "done"
        /\ centers = centers_init
        /\ choice_cluster.bound

\* C5: an initialisation asked for more rows than there are candidates
\* raises an error and returns no center matrix.
C5_TooFewCandidatesRaises ==
    (fn \in LloydFns /\ pc # "start" /\ Candidates < Requested) =>
        /\ centers_init = NoTensor
        /\ pc = "error"

\* C6: in lloyd_nnz_fixed_0_center the last center has, after every
\* iteration and in the returned matrix, the value the initialisation gave it.
C6_LastCenterFrozen ==
    (Iterated /\ fn = "lloyd_nnz_fixed_0_center") =>
        LastRow(centers) = LastRow(centers_init)

\* C7: with max_iter >= 1 the loop runs at most max_iter iterations, no
\* iteration follows one whose center_shift squared is below tol, and the
\* loop is left only after such an iteration or after max_iter iterations.
C7_LoopEndsAtFirstSmallShiftOrCap ==
    (fn \in LloydFns /\ max_iter >= 1) =>
        /\ i = Len(shifts)
        /\ i <= max_iter
        /\ \A j \in 1..(i - 1) : ~BelowTol(shifts[j])
        /\ i >= 1 =>
              shifts[i] = RSum([k \in 1..centers.shape[1] |->
                                  RAbs(RSub(centers.val[k][1], centers_old.val[k][1]))])
        /\ pc \in {"exit", "done"} => (BelowTol(shifts[i]) \/ i = max_iter)
        /\ pc = "loop" => (i < max_iter /\ (i >= 1 => ~BelowTol(shifts[i])))

C7_Witness ==
    /\ fn \in LloydFns
    /\ pc = "done"
    /\ i = 3
    /\ max_iter = default_max_iter
    /\ BelowTol(shifts[3])

\* C8: lloyd_fixed_nnz returns an assignment with one entry per non-zero
\* entry of Xp, each in [0, K-1) and each the nearest of the K-1 centers to
\* the corresponding non-zero row of X.
C8_FixedNnzAssignsNonZeroRows ==
    (fn = "lloyd_fixed_nnz" /\ pc = "done") =>
        LET nz == {a \in 1..Len(Xp) : Xp[a] # 0}
            row(q) == X.val[CHOOSE a \in nz : Cardinality({b \in nz : b < a}) = q - 1]
        IN /\ choice_cluster.shape = <<Cardinality(nz)>>
           /\ centers_old.shape[1] = K - 1
           /\ \A q \in 1..Cardinality(nz) :
                 /\ choice_cluster.val[q] \in 0..(K - 2)
                 /\ IsNearest(row(q), centers_old, choice_cluster.val[q])

C8_Witness ==
    /\ fn = "lloyd_fixed_nnz"
    /\ pc = "done"
    /\ choice_cluster.shape[1] < X.shape[1]
    /\ \E q \in 1..choice_cluster.shape[1] : choice_cluster.val[q] = K - 2

\* C9: lloyd on X = [[0,0],[0,0],[10,10],[10,10]] with K = 2, max_iter = 20
\* returns the centers [0,0] and [10,10] with the zero rows in one cluster
\* and the [10,10] rows in the other.
C9_ExampleConverges ==
    (fn = "lloyd" /\ X = ExampleX /\ K = 2 /\ max_iter = default_max_iter
        /\ pc \in {"done", "error"}) =>
        /\ pc = "done"
        /\ {centers.val[1], centers.val[2]} = {RatRow(<<0, 0>>), RatRow(<<10, 10>>)}
        /\ choice_cluster.val[1] = choice_cluster.val[2]
        /\ choice_cluster.val[3] = choice_cluster.val[4]
        /\ choice_cluster.val[1] # choice_cluster.val[3]

\* C10 as stated: the last center of lloyd_nnz_fixed_0_center is a drawn
\* row of X, one row being drawn per center.
C10_PinnedCenterIsDrawnRow ==
    (Initialized /\ fn = "lloyd_nnz_fixed_0_center") =>
        /\ Len(indices) = centers_init.shape[1]
        /\ LastRow(centers_init) =
              RatRow(X.val[NonZero(Xp)[indices[Len(indices)] + 1] + 1])

\* C10 as amended: in lloyd_nnz_fixed_0_center, as in lloyd_nnz, the last
\* center of the initialisation is the appended zero vector, and the centers
\* before it are the drawn rows of X.
C10_PinnedCenterIsZero ==
    (Initialized /\ fn \in {"lloyd_nnz", "lloyd_nnz_fixed_0_center"}) =>
        /\ centers_init.shape[1] = Len(indices) + 1
        /\ LastRow(centers_init) = <<Zero>>
        /\ \A q \in 1..Len(indices) :
              centers_init.val[q] = RatRow(X.val[NonZero(Xp)[indices[q] + 1] + 1])

C10_Witness ==
    /\ Initialized
    /\ fn = "lloyd_nnz_fixed_0_center"
    /\ centers_init.shape[1] = K + 1
    /\ \A a \in 1..X.shape[1] : X.val[a] # <<0>>
    /\ pc = "done"
    /\ LastRow(centers) = <<Zero>>
====
